---- MODULE Spec2Model ----
(***************************************************************************)
(* Session-backed JWT authentication of the note-app backend:              *)
(* AuthService over UserRepository and SessionRepository, with the token   *)
(* codec (app.core.security) and the database's unique constraints.        *)
(*                                                                         *)
(* Time is a discrete clock `now`; several requests may be served at the   *)
(* same clock value (two requests inside the same timestamp unit).         *)
(***************************************************************************)
EXTENDS Integers, FiniteSets, Sequences, TLC

\* -------------------------------------------------- settings and bounds
\* The two lifetimes of Settings, in clock ticks: the access lifetime (minutes)
\* is the shorter, the refresh lifetime (days) the longer.
AccessTTL == 1
RefreshTTL == 2

MaxLogins == 2                  \* session ids handed out (create_session calls)
MaxTime == RefreshTTL + 1       \* the clock runs until a first session has expired

EmailList == <<"a@x.com", "b@x.com">>
Emails == {EmailList[i] : i \in 1..Len(EmailList)}
Passwords == {"pw1", "pw2"}       \* what a login may present
RegPasswords == {"pw1"}           \* what a registration chooses
Devices == {"web"}

MaxDocs == 1                    \* document ids handed out (create_document calls)
MaxVersions == 2                \* version ids handed out (create_version calls)
MaxFolders == 2                 \* folder ids handed out (create_folder calls)
Contents == {"", "a"}

NoId == 0
NoTime == -1

VARIABLES
    users,      \* the users table: a set of rows
    sessions,   \* the user_sessions table: a set of rows
    nextSid,    \* the next fresh session id (uuid4)
    now,        \* datetime.now(timezone.utc)
    calls,      \* refresh requests in flight between their read and their write
    last,       \* the last completed request: what it was and what it answered
    revoked,    \* history: the deleted session rows (recorded under SpecRevoke only)
    documents,  \* the documents table
    versions,   \* the document_versions table
    folders,    \* the folders table
    nextId      \* the next fresh document, version and folder id (uuid4)

docvars == <<documents, versions, folders, nextId>>

vars == <<users, sessions, nextSid, now, calls, last, revoked, docvars>>

UserIds == 1..Len(EmailList)
CallIds == {1, 2}

\* ----------------------------------------------------------- token codec
\* A token is its signed claims: the signature is a function of the claims
\* and the secret, so equal claims give the equal token string.
NoToken == [sub |-> NoId, typ |-> "none", exp |-> 0]
Garbage == [sub |-> NoId, typ |-> "garbage", exp |-> 0]
Tokens == [sub : UserIds, typ : {"access", "refresh"}, exp : 0..(MaxTime + RefreshTTL)]
TokenInputs == Tokens \union {Garbage}

create_access_token(sub, t) == [sub |-> sub, typ |-> "access", exp |-> t + AccessTTL]

create_refresh_token(sub, t) == [sub |-> sub, typ |-> "refresh", exp |-> t + RefreshTTL]

\* The payload, or NoToken when the token is malformed or expired by claim.
decode_token(tok, t) ==
    IF tok.typ \in {"access", "refresh"} /\ tok.exp >= t THEN tok ELSE NoToken

hash_password(p) == <<"hash", p>>

verify_password(p, h) == hash_password(p) = h

\* ------------------------------------------------------- user repository
get_user_by_email(e) == {u \in users : u.email = e /\ u.is_active}

\* Mutant of get_user_by_id: the is_active filter is missing.
GetUserByIdAnyState(id) == {u \in users : u.id = id}

get_user_by_id(id) == {u \in users : u.id = id /\ u.is_active}

\* Mutant of EmailUnique: the unique index on users.email is missing.
EmailUniqueUnenforced(e) == TRUE

\* users.email is unique (idx_users_email): the insert of a second row with
\* the email fails with IntegrityError.
EmailUnique(e) == \A u \in users : u.email # e

\* Base.id defaults to uuid4(): an id no other row has.  Emails are unique among
\* the rows and no row is ever removed, so the model names the id of a new
\* user after its email.
NewUserId(e) == CHOOSE i \in UserIds : EmailList[i] = e

NewUser(e, p) ==
    [id |-> NewUserId(e), email |-> e, password_hash |-> hash_password(p),
     is_active |-> TRUE, last_login |-> NoTime]

\* ---------------------------------------------------- session repository
get_session_by_access_token(tok) == {s \in sessions : s.access_token = tok}

\* Mutant of get_session_by_refresh_token: the query has lost its WHERE clause.
GetSessionByRefreshAnyRow(tok) == sessions

get_session_by_refresh_token(tok) == {s \in sessions : s.refresh_token = tok}

\* Mutant of TokensUnique: the unique indexes on the two token columns are
\* missing.
TokensUniqueUnenforced(sid, a, r) == TRUE

\* user_sessions.access_token and .refresh_token are unique: a row other than
\* `sid` holding one of the values makes the commit fail with IntegrityError.
TokensUnique(sid, a, r) ==
    \A s \in sessions : s.id # sid => (s.access_token # a /\ s.refresh_token # r)

\* Mutant of new_expires_at: the row's lifetime is that of the access token.
ExpiresAtFromAccessTTL == now + AccessTTL

\* The expires_at login and refresh_access_token compute once the pair is
\* minted: the time of the call plus REFRESH_TOKEN_EXPIRE_DAYS.
new_expires_at == now + RefreshTTL

NewSession(uid, a, r, exp, dev) ==
    [id |-> nextSid, user_id |-> uid, access_token |-> a, refresh_token |-> r,
     expires_at |-> exp, created_at |-> now, updated_at |-> now, device_info |-> dev]

\* Mutants of update_session_tokens: the rotation replaces the row by a new
\* one (created now); the rotation inserts the row when there is none.
ReplaceSessionRow(sid, a, r, exp) ==
    {IF s.id = sid
        THEN [s EXCEPT !.access_token = a, !.refresh_token = r, !.expires_at = exp,
                       !.updated_at = now, !.created_at = now]
        ELSE s : s \in sessions}

UpsertSessionTokens(sid, a, r, exp) ==
    IF \E s \in sessions : s.id = sid
        THEN {IF s.id = sid
                 THEN [s EXCEPT !.access_token = a, !.refresh_token = r,
                                !.expires_at = exp, !.updated_at = now]
                 ELSE s : s \in sessions}
        ELSE sessions \union
                {[id |-> sid, user_id |-> a.sub, access_token |-> a, refresh_token |-> r,
                  expires_at |-> exp, created_at |-> now, updated_at |-> now,
                  device_info |-> "web"]}

update_session_tokens(sid, a, r, exp) ==
    {IF s.id = sid
        THEN [s EXCEPT !.access_token = a, !.refresh_token = r, !.expires_at = exp,
                       !.updated_at = now]
        ELSE s : s \in sessions}

delete_session(sid) == {s \in sessions : s.id # sid}

\* Mutant of delete_session_by_access_token: the delete filters on the user
\* the token names, not on the token.
DeleteByTokenSubject(tok) == {s \in sessions : s.user_id # tok.sub}

\* Mutant of delete_session_by_access_token: the delete filters on the wrong
\* token column.
DeleteByRefreshColumn(tok) == {s \in sessions : s.refresh_token # tok}

delete_session_by_access_token(tok) == {s \in sessions : s.access_token # tok}

\* Mutants of delete_all_user_sessions: the delete spares the expired rows; the
\* delete has lost its WHERE clause.
DeleteUnexpiredOfUser(uid) == {s \in sessions : s.user_id # uid \/ s.expires_at <= now}

DeleteEveryUsersSessions(uid) == {}

delete_all_user_sessions(uid) == {s \in sessions : s.user_id # uid}

delete_expired_sessions == {s \in sessions : ~(s.expires_at <= now)}

\* Mutant of get_active_sessions_by_user: the list is ordered by the last
\* update of a row.
ActiveSessionsByUpdate(uid) ==
    LET rows == {s \in sessions : s.user_id = uid /\ s.expires_at > now}
        n == Cardinality(rows)
    IN {l \in [1..n -> rows] :
           /\ \A i, j \in 1..n : i # j => l[i] # l[j]
           /\ \A i, j \in 1..n : i < j => l[i].updated_at >= l[j].updated_at}

\* The lists get_active_sessions_by_user may return: the rows of the user that
\* have not expired, newest first.  ORDER BY leaves the order of rows with
\* equal created_at to the database, so each such order is a possible answer.
get_active_sessions_by_user(uid) ==
    LET rows == {s \in sessions : s.user_id = uid /\ s.expires_at > now}
        n == Cardinality(rows)
    IN {l \in [1..n -> rows] :
           /\ \A i, j \in 1..n : i # j => l[i] # l[j]
           /\ \A i, j \in 1..n : i < j => l[i].created_at >= l[j].created_at}

\* result.rowcount of a delete that leaves `after` as the table.
rowcount(after) == Cardinality(sessions \ after)

\* db.get(UserSession, session_id): the row with the id, if any.
get_session(sid) == {s \in sessions : s.id = sid}

\* The expiry check of refresh_access_token and get_current_user_from_token.
SessionExpired(s) == s.expires_at < now

\* What a client may present.  A request reads its token three ways only: does
\* it decode, of which kind is it, which row holds it.  So the tokens of the
\* rows, one token per kind that decodes and that no row holds (a revoked or
\* rotated one), and a string that is no token cover every case.
StoreTokens == UNION {{s.access_token, s.refresh_token} : s \in sessions}

Stale(kind) ==
    LET c == {IF kind = "access" THEN create_access_token(u.id, t)
                                 ELSE create_refresh_token(u.id, t)
                 : u \in users, t \in 0..now}
        live == {tok \in c \ StoreTokens : decode_token(tok, now) # NoToken}
    IN IF live = {} THEN {} ELSE {CHOOSE tok \in live : TRUE}

Presentable == StoreTokens \union Stale("access") \union Stale("refresh") \union {Garbage}

\* ------------------------------------------------------------- responses
NoProfile == [id |-> NoId, email |-> "", is_active |-> FALSE, last_login |-> NoTime]

Resp(op, status, detail) ==
    [op |-> op, status |-> status, detail |-> detail, user |-> NoId, sid |-> NoId,
     access_token |-> NoToken, refresh_token |-> NoToken, count |-> 0,
     expires_in |-> 0, profile |-> NoProfile]

\* UserResponse.model_validate(user): the fields of the schema, read from the
\* row.  The schema has no password field.
UserResponse(u) ==
    [id |-> u.id, email |-> u.email, is_active |-> u.is_active, last_login |-> u.last_login]

\* Mutant of TokenResponse: expires_in is the lifetime of the session.
TokenResponseSessionLifetime(op, a, r) ==
    [Resp(op, 200, "bearer") EXCEPT
        !.access_token = a, !.refresh_token = r, !.expires_in = RefreshTTL * 60]

\* TokenResponse(...): the pair, token_type (the detail of the response) and
\* expires_in, the configured lifetime of an access token in seconds.
TokenResponse(op, a, r) ==
    [Resp(op, 200, "bearer") EXCEPT
        !.access_token = a, !.refresh_token = r, !.expires_in = AccessTTL * 60]

\* The response as the client sees it: a token pair (login, refresh) or a user
\* profile (register, me), never a session id.
Public(res) ==
    [res EXCEPT !.sid = NoId,
                !.user = IF res.op \in {"register", "me"} THEN res.user ELSE NoId]

\* A refresh request: where it stands, what it read and what it answered.
IdleCall ==
    [pc |-> "idle", tok |-> NoToken, sid |-> NoId, overlap |-> FALSE, order |-> 0,
     status |-> 0, access_token |-> NoToken, refresh_token |-> NoToken]

Init ==
    /\ users = {}
    /\ sessions = {}
    /\ nextSid = 1
    /\ now = 0
    /\ calls = [c \in CallIds |-> IdleCall]
    /\ last = Resp("init", 0, "")
    /\ revoked = {}
    /\ documents = {}
    /\ versions = {}
    /\ folders = {}
    /\ nextId = [doc |-> 1, ver |-> 1, folder |-> 1]

\* ----------------------------------------------------------- AuthService
\* What register answers in the current state.
RegisterOutcome(e, p) ==
    IF get_user_by_email(e) # {} THEN Resp("register", 400, "Email already registered")
    ELSE IF ~EmailUnique(e)
        THEN Resp("register", 400, "A user with this email already exists.")
    ELSE [Resp("register", 201, "") EXCEPT
             !.user = NewUserId(e), !.profile = UserResponse(NewUser(e, p))]

register(e, p) ==
    LET res == RegisterOutcome(e, p) IN
    /\ last' = Public(res)
    /\ IF res.status = 201
          THEN users' = users \union {NewUser(e, p)}
          ELSE UNCHANGED users
    /\ UNCHANGED <<sessions, nextSid, now, calls>>

\* Mutant of LoginOutcome: an unknown email is told apart from a wrong password.
LoginOutcomeEnumerating(e, p) ==
    LET found == get_user_by_email(e) IN
    IF found = {} THEN Resp("login", 404, "User not found")
    ELSE IF \A u \in found : ~verify_password(p, u.password_hash)
        THEN Resp("login", 401, "Invalid email or password")
    ELSE LET user == CHOOSE u \in found : TRUE
             a == create_access_token(user.id, now)
             r == create_refresh_token(user.id, now)
         IN IF ~TokensUnique(NoId, a, r)
                THEN Resp("login", 500, "Internal Server Error")
            ELSE [TokenResponse("login", a, r) EXCEPT !.user = user.id, !.sid = nextSid]

\* What login answers in the current state.
LoginOutcome(e, p) ==
    LET found == get_user_by_email(e) IN
    IF found = {} \/ (\A u \in found : ~verify_password(p, u.password_hash))
        THEN Resp("login", 401, "Invalid email or password")
    ELSE LET user == CHOOSE u \in found : TRUE
             a == create_access_token(user.id, now)
             r == create_refresh_token(user.id, now)
         IN IF ~user.is_active THEN Resp("login", 403, "Account is deactivated")
            ELSE IF ~TokensUnique(NoId, a, r)
                THEN Resp("login", 500, "Internal Server Error")
            ELSE [TokenResponse("login", a, r) EXCEPT !.user = user.id, !.sid = nextSid]

login(e, p, dev) ==
    LET res == LoginOutcome(e, p) IN
    /\ res.status = 200 => nextSid <= MaxLogins
    /\ last' = Public(res)
    /\ IF res.status = 200
          THEN /\ users' = {IF u.id = res.user THEN [u EXCEPT !.last_login = now] ELSE u
                              : u \in users}
               /\ sessions' = sessions \union
                     {NewSession(res.user, res.access_token, res.refresh_token,
                                 new_expires_at, dev)}
               /\ nextSid' = nextSid + 1
          ELSE UNCHANGED <<users, sessions, nextSid>>
    /\ UNCHANGED <<now, calls>>

\* Mutant of RefreshLookup: the kind of the token is not checked.
RefreshLookupAnyKind(tok) ==
    LET payload == decode_token(tok, now)
        found == get_session_by_refresh_token(tok)
    IN IF payload = NoToken THEN Resp("refresh", 401, "Invalid refresh token")
       ELSE IF found = {} THEN Resp("refresh", 401, "Session not found")
       ELSE LET session == CHOOSE s \in found : TRUE IN
            IF SessionExpired(session)
                THEN [Resp("refresh", 401, "Session expired") EXCEPT !.sid = session.id]
                ELSE [Resp("refresh", 0, "") EXCEPT !.sid = session.id, !.user = payload.sub]

\* Mutant of RefreshLookup: the user the token names must be active.
RefreshLookupCheckingUser(tok) ==
    LET payload == decode_token(tok, now)
        found == get_session_by_refresh_token(tok)
    IN IF payload = NoToken \/ payload.typ # "refresh"
           THEN Resp("refresh", 401, "Invalid refresh token")
       ELSE IF found = {} THEN Resp("refresh", 401, "Session not found")
       ELSE LET session == CHOOSE s \in found : TRUE IN
            IF SessionExpired(session)
                THEN [Resp("refresh", 401, "Session expired") EXCEPT !.sid = session.id]
            ELSE IF get_user_by_id(payload.sub) = {}
                THEN Resp("refresh", 401, "User not found")
            ELSE [Resp("refresh", 0, "") EXCEPT !.sid = session.id, !.user = payload.sub]

\* refresh_access_token up to its expiry check: an error response, or status 0
\* (go on) with the session it read and the subject of the token.
RefreshLookup(tok) ==
    LET payload == decode_token(tok, now)
        found == get_session_by_refresh_token(tok)
    IN IF payload = NoToken \/ payload.typ # "refresh"
           THEN Resp("refresh", 401, "Invalid refresh token")
       ELSE IF found = {} THEN Resp("refresh", 401, "Session not found")
       ELSE LET session == CHOOSE s \in found : TRUE IN
            IF SessionExpired(session)
                THEN [Resp("refresh", 401, "Session expired") EXCEPT !.sid = session.id]
                ELSE [Resp("refresh", 0, "") EXCEPT !.sid = session.id, !.user = payload.sub]

\* refresh_access_token from the minting of the new pair on, for the session
\* `sid` it read and the subject `sub` of its token.
RefreshRotate(sid, sub) ==
    LET a == create_access_token(sub, now)
        r == create_refresh_token(sub, now)
    IN IF ~TokensUnique(sid, a, r) THEN Resp("refresh", 500, "Internal Server Error")
       ELSE [TokenResponse("refresh", a, r) EXCEPT !.user = sub, !.sid = sid]

\* What refresh_access_token answers in the current state, served in one piece.
RefreshOutcome(tok) ==
    LET rd == RefreshLookup(tok) IN
    IF rd.status # 0 THEN rd ELSE RefreshRotate(rd.sid, rd.user)

\* The session table after a refresh that answered `res`.
RefreshEffect(res) ==
    IF res.status = 200
        THEN update_session_tokens(res.sid, res.access_token, res.refresh_token,
                                   new_expires_at)
    ELSE IF res.detail = "Session expired" THEN delete_session(res.sid)
    ELSE sessions

refresh_access_token(tok) ==
    LET res == RefreshOutcome(tok) IN
    /\ last' = Public(res)
    /\ sessions' = RefreshEffect(res)
    /\ UNCHANGED <<users, nextSid, now, calls>>

logout(tok) ==
    LET found == get_session_by_access_token(tok) IN
    /\ last' = IF found = {} THEN Resp("logout", 404, "Session not found")
               ELSE Resp("logout", 204, "")
    /\ sessions' = delete_session_by_access_token(tok)
    /\ UNCHANGED <<users, nextSid, now, calls>>

logout_all_sessions(uid) ==
    /\ last' = [Resp("logout_all", 204, "") EXCEPT
                     !.count = Cardinality(sessions \ delete_all_user_sessions(uid))]
    /\ sessions' = delete_all_user_sessions(uid)
    /\ UNCHANGED <<users, nextSid, now, calls>>

\* Mutant of CurrentUserOutcome: the claims of a token that decodes are
\* trusted, and the session table is not consulted.
CurrentUserOutcomeTrustingClaims(tok) ==
    LET payload == decode_token(tok, now) IN
    IF payload = NoToken \/ payload.typ # "access"
        THEN Resp("me", 401, "Invalid access token")
    ELSE IF get_user_by_id(payload.sub) = {} THEN Resp("me", 401, "User not found")
    ELSE [Resp("me", 200, "") EXCEPT
             !.user = payload.sub,
             !.profile = UserResponse(CHOOSE u \in get_user_by_id(payload.sub) : TRUE)]

\* What get_current_user_from_token answers in the current state.
CurrentUserOutcome(tok) ==
    LET payload == decode_token(tok, now)
        found == get_session_by_access_token(tok)
    IN IF payload = NoToken \/ payload.typ # "access"
           THEN Resp("me", 401, "Invalid access token")
       ELSE IF found = {} THEN Resp("me", 401, "Session not found or expired")
       ELSE LET session == CHOOSE s \in found : TRUE IN
            IF SessionExpired(session)
                THEN [Resp("me", 401, "Session expired") EXCEPT !.sid = session.id]
            ELSE IF get_user_by_id(payload.sub) = {}
                THEN [Resp("me", 401, "User not found") EXCEPT !.sid = session.id]
            ELSE [Resp("me", 200, "") EXCEPT
                     !.sid = session.id, !.user = payload.sub,
                     !.profile = UserResponse(CHOOSE u \in get_user_by_id(payload.sub) : TRUE)]

get_current_user_from_token(tok) ==
    LET res == CurrentUserOutcome(tok) IN
    /\ last' = Public(res)
    /\ sessions' = IF res.detail = "Session expired" THEN delete_session(res.sid)
                   ELSE sessions
    /\ UNCHANGED <<users, nextSid, now, calls>>

\* The maintenance sweep.
sweep_expired ==
    /\ last' = [Resp("sweep", 0, "") EXCEPT
                     !.count = Cardinality(sessions \ delete_expired_sessions)]
    /\ sessions' = delete_expired_sessions
    /\ UNCHANGED <<users, nextSid, now, calls>>

\* UserRepository.delete_user: the soft delete of a user.
delete_user(uid) ==
    /\ last' = Resp("deactivate", 0, "")
    /\ users' = {IF u.id = uid THEN [u EXCEPT !.is_active = FALSE] ELSE u : u \in users}
    /\ UNCHANGED <<sessions, nextSid, now, calls>>

Tick ==
    /\ now < MaxTime
    /\ now' = now + 1
    /\ last' = Resp("tick", 0, "")
    /\ UNCHANGED <<users, sessions, nextSid, calls>>

\* ------------------------------------------------------------ the system
Next ==
    \/ UNCHANGED <<revoked, docvars>> /\ \E e \in Emails, p \in RegPasswords : register(e, p)
    \/ UNCHANGED <<revoked, docvars>> /\ \E e \in Emails, p \in Passwords, d \in Devices : login(e, p, d)
    \/ UNCHANGED <<revoked, docvars>> /\ \E t \in Presentable : refresh_access_token(t)
    \/ UNCHANGED <<revoked, docvars>> /\ \E t \in Presentable : logout(t)
    \/ UNCHANGED <<revoked, docvars>> /\ \E t \in Presentable : get_current_user_from_token(t)
    \/ UNCHANGED <<revoked, docvars>> /\ \E u \in UserIds : logout_all_sessions(u)
    \/ UNCHANGED <<revoked, docvars>> /\ \E u \in UserIds : delete_user(u)
    \/ UNCHANGED <<revoked, docvars>> /\ sweep_expired
    \/ UNCHANGED <<revoked, docvars>> /\ Tick

Spec == Init /\ [][Next]_vars

\* ------------------------------------------- refresh requests in flight
\* refresh_access_token awaits the database twice: it reads the session, and
\* later commits the rotation.  Another request may run between the two.
OtherCall(c) == CHOOSE d \in CallIds : d # c

\* The first half: decode, look the session up, check its expiry.
refresh_read(c, tok) ==
    LET rd == RefreshLookup(tok) IN
    /\ calls[c].pc = "idle"
    /\ IF rd.status = 0
          THEN /\ calls' = [calls EXCEPT ![c] =
                      [IdleCall EXCEPT !.pc = "read", !.tok = tok, !.sid = rd.sid,
                          !.overlap = /\ calls[OtherCall(c)].pc = "read"
                                      /\ calls[OtherCall(c)].sid = rd.sid]]
               /\ UNCHANGED <<sessions, last>>
          ELSE /\ calls' = [calls EXCEPT ![c] =
                      [IdleCall EXCEPT !.pc = "done", !.tok = tok, !.status = rd.status]]
               /\ sessions' = RefreshEffect(rd)
               /\ last' = Public(rd)
    /\ UNCHANGED <<users, nextSid, now>>

\* Mutant of RefreshCommit: a rotation whose row is gone writes nothing and
\* is answered as a success.
RefreshCommitMissingRowIgnored(sid, sub) == RefreshRotate(sid, sub)

\* The rotation of a request that read the row `sid` earlier.  db.get returns
\* the object the request has loaded, and the commit flushes an UPDATE of the
\* row by id: when the row is gone the UPDATE matches nothing and the flush
\* raises StaleDataError, which the request answers with 500.
RefreshCommit(sid, sub) ==
    IF get_session(sid) = {} THEN Resp("refresh", 500, "Internal Server Error")
    ELSE RefreshRotate(sid, sub)

\* The second half: mint the new pair, write it to the row, answer.
refresh_write(c) ==
    LET res == RefreshCommit(calls[c].sid, calls[c].tok.sub) IN
    /\ calls[c].pc = "read"
    /\ calls' = [calls EXCEPT ![c] =
              [@ EXCEPT !.pc = "done", !.status = res.status,
                        !.access_token = res.access_token,
                        !.refresh_token = res.refresh_token,
                        !.order = IF calls[OtherCall(c)].order = 0 THEN 1 ELSE 2]]
    /\ sessions' = RefreshEffect(res)
    /\ last' = Public(res)
    /\ UNCHANGED <<users, nextSid, now>>

NextRace ==
    \/ UNCHANGED <<revoked, docvars>> /\ \E e \in Emails, p \in RegPasswords : register(e, p)
    \/ UNCHANGED <<revoked, docvars>> /\ \E e \in Emails, p \in Passwords, d \in Devices : login(e, p, d)
    \/ UNCHANGED <<revoked, docvars>> /\ \E c \in CallIds, t \in Presentable : refresh_read(c, t)
    \/ UNCHANGED <<revoked, docvars>> /\ \E c \in CallIds : refresh_write(c)
    \/ UNCHANGED <<revoked, docvars>> /\ Tick

SpecRace == Init /\ [][NextRace]_vars

\* One refresh request in flight, with the requests that delete sessions
\* (two refresh requests in flight are the matter of SpecRace).
FirstCall == {CHOOSE c \in CallIds : TRUE}

NextRaceDelete ==
    \/ UNCHANGED <<revoked, docvars>> /\ \E e \in Emails, p \in RegPasswords : register(e, p)
    \/ UNCHANGED <<revoked, docvars>> /\ \E e \in Emails, p \in Passwords, d \in Devices : login(e, p, d)
    \/ UNCHANGED <<revoked, docvars>> /\ \E c \in FirstCall, t \in Presentable : refresh_read(c, t)
    \/ UNCHANGED <<revoked, docvars>> /\ \E c \in FirstCall : refresh_write(c)
    \/ UNCHANGED <<revoked, docvars>> /\ \E t \in Presentable : logout(t)
    \/ UNCHANGED <<revoked, docvars>> /\ \E u \in UserIds : logout_all_sessions(u)
    \/ UNCHANGED <<revoked, docvars>> /\ sweep_expired
    \/ UNCHANGED <<revoked, docvars>> /\ Tick

SpecRaceDelete == Init /\ [][NextRaceDelete]_vars

\* ------------------------------------------------ the deleted sessions
\* The rows a step removes from user_sessions, as they were when removed.
Revoke == revoked' = revoked \union {s \in sessions : \A t \in sessions' : t.id # s.id}

\* The requests of Next, with the deleted rows remembered.
NextRevoke ==
    \/ (\E e \in Emails, p \in RegPasswords : register(e, p)) /\ Revoke /\ UNCHANGED docvars
    \/ (\E e \in Emails, p \in Passwords, d \in Devices : login(e, p, d)) /\ Revoke /\ UNCHANGED docvars
    \/ (\E t \in Presentable : refresh_access_token(t)) /\ Revoke /\ UNCHANGED docvars
    \/ (\E t \in Presentable : logout(t)) /\ Revoke /\ UNCHANGED docvars
    \/ (\E t \in Presentable : get_current_user_from_token(t)) /\ Revoke /\ UNCHANGED docvars
    \/ (\E u \in UserIds : logout_all_sessions(u)) /\ Revoke /\ UNCHANGED docvars
    \/ (\E u \in UserIds : delete_user(u)) /\ Revoke /\ UNCHANGED docvars
    \/ sweep_expired /\ Revoke /\ UNCHANGED docvars
    \/ Tick /\ Revoke /\ UNCHANGED docvars

SpecRevoke == Init /\ [][NextRevoke]_vars

\* ------------------------------------------ register requests in flight
\* register awaits the database three times: its own existence check, the
\* existence check of create_user, and the commit of the insert.  Another
\* request may run between any two of them.
RegisterCall ==
    [pc |-> "idle", email |-> "", password |-> "", status |-> 0, raced |-> FALSE]

InitRegisterRace ==
    /\ users = {}
    /\ sessions = {}
    /\ nextSid = 1
    /\ now = 0
    /\ calls = [c \in CallIds |-> RegisterCall]
    /\ last = Resp("init", 0, "")
    /\ revoked = {}
    /\ documents = {}
    /\ versions = {}
    /\ folders = {}
    /\ nextId = [doc |-> 1, ver |-> 1, folder |-> 1]

\* The request has answered `res`.
RegisterDone(c, res) ==
    /\ calls' = [calls EXCEPT ![c] = [@ EXCEPT !.pc = "done", !.status = res.status]]
    /\ last' = Public(res)

\* AuthService.register up to its existence check.
register_check(c, e, p) ==
    LET call == [RegisterCall EXCEPT !.email = e, !.password = p] IN
    /\ calls[c].pc \in {"idle", "done"}
    /\ IF get_user_by_email(e) # {}
          THEN /\ calls' = [calls EXCEPT ![c] = [call EXCEPT !.pc = "done", !.status = 400]]
               /\ last' = Public(Resp("register", 400, "Email already registered"))
          ELSE /\ calls' = [calls EXCEPT ![c] = [call EXCEPT !.pc = "checked"]]
               /\ UNCHANGED last
    /\ UNCHANGED <<users, sessions, nextSid, now>>

\* UserRepository.create_user up to its existence check; the ValueError it
\* raises is answered with 400 by register.
register_recheck(c) ==
    /\ calls[c].pc = "checked"
    /\ IF get_user_by_email(calls[c].email) # {}
          THEN RegisterDone(c, Resp("register", 400, "A user with this email already exists."))
          ELSE /\ calls' = [calls EXCEPT ![c] = [@ EXCEPT !.pc = "rechecked"]]
               /\ UNCHANGED last
    /\ UNCHANGED <<users, sessions, nextSid, now>>

\* Mutant of RegisterCommit: the IntegrityError of the commit is not caught
\* by create_user and reaches register's last handler.
RegisterCommitIntegrityErrorUncaught(e, p) ==
    IF ~EmailUnique(e) THEN Resp("register", 500, "Failed to create user")
    ELSE [Resp("register", 201, "") EXCEPT
             !.user = NewUserId(e), !.profile = UserResponse(NewUser(e, p))]

\* The commit of the insert and what register answers after it: the unique
\* index on users.email refuses a second row (IntegrityError), create_user
\* turns that into ValueError and register into 400.
RegisterCommit(e, p) ==
    IF ~EmailUnique(e)
        THEN Resp("register", 400, "A user with this email already exists.")
    ELSE [Resp("register", 201, "") EXCEPT
             !.user = NewUserId(e), !.profile = UserResponse(NewUser(e, p))]

\* The commit.  `raced` marks the two requests when this one inserts a new
\* email while the other one, for the same email, is past its existence
\* check and before its commit.
register_commit(c) ==
    LET e == calls[c].email
        d == OtherCall(c)
        res == RegisterCommit(e, calls[c].password)
        race == /\ EmailUnique(e)
                /\ calls[d].pc \in {"checked", "rechecked"}
                /\ calls[d].email = e
    IN /\ calls[c].pc = "rechecked"
       /\ calls' = [x \in CallIds |->
                      IF x = c THEN [calls[c] EXCEPT !.pc = "done", !.status = res.status,
                                                      !.raced = @ \/ race]
                      ELSE [calls[x] EXCEPT !.raced = @ \/ race]]
       /\ last' = Public(res)
       /\ IF res.status = 201
             THEN users' = users \union {NewUser(e, calls[c].password)}
             ELSE UNCHANGED users
       /\ UNCHANGED <<sessions, nextSid, now>>

NextRegisterRace ==
    \/ UNCHANGED <<revoked, docvars>> /\ \E c \in CallIds, e \in Emails, p \in RegPasswords : register_check(c, e, p)
    \/ UNCHANGED <<revoked, docvars>> /\ \E c \in CallIds : register_recheck(c)
    \/ UNCHANGED <<revoked, docvars>> /\ \E c \in CallIds : register_commit(c)
    \/ UNCHANGED <<revoked, docvars>> /\ \E u \in UserIds : delete_user(u)
    \/ UNCHANGED <<revoked, docvars>> /\ Tick

SpecRegisterRace == InitRegisterRace /\ [][NextRegisterRace]_vars

\* ------------------------------------------------- documents and folders
\* A row of documents: id, owner_id, content, version, folder_id, deleted_at
\* (title, description, category and is_pinned are not followed).  A row of document_versions: id, document_id, content, version,
\* changed_by.  A row of folders: id, owner_id, parent_id.
authvars == <<users, sessions, nextSid, now, calls, revoked>>

DocIds == 1..MaxDocs
VersionIds == 1..MaxVersions
FolderIds == 1..MaxFolders

\* DocumentUpdate payloads: the fields the request sets, and their values.
\* A payload that leaves content unset sets other fields only.
\* model_dump(exclude_unset=True) keeps the fields that were set.
DocumentUpdates ==
    {p \in [fields : SUBSET {"content"}, content : Contents] :
        "content" \notin p.fields => p.content = ""}

\* Payloads that set folder_id only: to a folder id, or to null.
DocumentMoves == [fields : {{"folder_id"}}, folder_id : {NoId} \union FolderIds]

model_dump(p) == [f \in p.fields |-> p[f]]

\* ----------------------------------------------------- DocumentRepository
\* Mutant of document_get_by_id: the deleted_at filter is missing.
DocumentGetByIdAnyState(d) == {x \in documents : x.id = d}

document_get_by_id(d) == {x \in documents : x.id = d /\ x.deleted_at = NoTime}

get_by_owner(u) == {x \in documents : x.owner_id = u /\ x.deleted_at = NoTime}

count_by_owner(u) == Cardinality({x \in documents : x.owner_id = u /\ x.deleted_at = NoTime})

NewDocument(u, c, f) ==
    [id |-> nextId.doc, owner_id |-> u, content |-> c, version |-> 1,
     folder_id |-> f, deleted_at |-> NoTime]

\* DocumentRepository.update: setattr for each field of the dump.
document_update(d, data) ==
    {IF x.id = d /\ x.deleted_at = NoTime
        THEN [f \in DOMAIN x |-> IF f \in DOMAIN data THEN data[f] ELSE x[f]]
        ELSE x : x \in documents}

soft_delete(d) ==
    {IF x.id = d /\ x.deleted_at = NoTime THEN [x EXCEPT !.deleted_at = now] ELSE x
        : x \in documents}

\* db.delete(document): the row goes, and with it (cascade "all, delete-orphan"
\* of Document.versions) its version rows.
permanent_delete_documents(d) ==
    {x \in documents : ~(x.id = d /\ x.deleted_at = NoTime)}

permanent_delete_versions(d) ==
    IF document_get_by_id(d) = {} THEN versions
    ELSE {v \in versions : v.document_id # d}

\* Mutant of create_version: the new snapshot takes the place of the earlier
\* snapshots of the document.
CreateVersionOverwriting(d, content, version, by) ==
    {v \in versions : v.document_id # d} \union
        {[id |-> nextId.ver, document_id |-> d, content |-> content, version |-> version,
          changed_by |-> by]}

create_version(d, content, version, by) ==
    versions \union
        {[id |-> nextId.ver, document_id |-> d, content |-> content, version |-> version,
          changed_by |-> by]}

get_versions_of(d) == {v \in versions : v.document_id = d}

get_version_by_id(v) == {x \in versions : x.id = v}

\* ------------------------------------------------------- FolderRepository
folder_get_by_id(f) == {x \in folders : x.id = f}

NewFolder(u, parent) == [id |-> nextId.folder, owner_id |-> u, parent_id |-> parent]

\* The folders db.delete(folder) removes: the folder and, through the cascade
\* "all, delete-orphan" of Folder.children, the folders below it.
RECURSIVE Subtree(_, _)
Subtree(F, n) ==
    IF n = 0 THEN F
    ELSE Subtree(F \union {x.id : x \in {y \in folders : y.parent_id \in F}}, n - 1)

\* Mutant of folder_delete_folders: the delete removes the folder alone.
FolderDeleteNoCascade(f) == {x \in folders : x.id # f}

folder_delete_folders(f) == {x \in folders : x.id \notin Subtree({f}, MaxFolders)}

\* Mutant of folder_delete_documents: the documents of a deleted folder are
\* deleted with it.
FolderDeleteCascadesToDocuments(f) ==
    {x \in documents : x.folder_id \notin Subtree({f}, MaxFolders)}

\* Folder.documents has no delete cascade and documents.folder_id is declared
\* ondelete SET NULL: the documents of a deleted folder stay, out of any folder.
folder_delete_documents(f) ==
    {IF x.folder_id \in Subtree({f}, MaxFolders) THEN [x EXCEPT !.folder_id = NoId] ELSE x
        : x \in documents}

\* -------------------------------------------------------- DocumentService
\* Mutant of FolderCheck: the owner of the folder is not compared with the
\* caller.
FolderCheckAnyOwner(op, f, u, missing, denied) ==
    IF f = NoId THEN Resp(op, 201, "")
    ELSE IF folder_get_by_id(f) = {} THEN Resp(op, 404, missing)
    ELSE Resp(op, 201, "")

\* The folder check of create_document and create_folder.
FolderCheck(op, f, u, missing, denied) ==
    IF f = NoId THEN Resp(op, 201, "")
    ELSE IF folder_get_by_id(f) = {} THEN Resp(op, 404, missing)
    ELSE IF (CHOOSE x \in folder_get_by_id(f) : TRUE).owner_id # u THEN Resp(op, 403, denied)
    ELSE Resp(op, 201, "")

create_document(u, c, f) ==
    LET res == FolderCheck("create_document", f, u, "Folder not found",
                           "You don't have access to this folder") IN
    /\ res.status = 201 => nextId.doc <= MaxDocs
    /\ last' = res
    /\ IF res.status = 201
          THEN /\ documents' = documents \union {NewDocument(u, c, f)}
               /\ nextId' = [nextId EXCEPT !.doc = @ + 1]
          ELSE UNCHANGED <<documents, nextId>>
    /\ UNCHANGED <<versions, folders, authvars>>

\* Mutant of GetDocumentOutcome: the ownership check is missing.
GetDocumentOutcomeAnyUser(d, u) ==
    IF document_get_by_id(d) = {} THEN Resp("get_document", 404, "Document not found")
    ELSE Resp("get_document", 200, "")

\* What get_document answers in the current state.
GetDocumentOutcome(d, u) ==
    LET found == document_get_by_id(d) IN
    IF found = {} THEN Resp("get_document", 404, "Document not found")
    ELSE IF (CHOOSE x \in found : TRUE).owner_id # u
        THEN Resp("get_document", 403, "You don't have access to this document")
    ELSE Resp("get_document", 200, "")

get_document(d, u) ==
    /\ last' = GetDocumentOutcome(d, u)
    /\ UNCHANGED <<docvars, authvars>>

list_documents(u) ==
    /\ last' = [Resp("list_documents", 200, "") EXCEPT !.count = Cardinality(get_by_owner(u))]
    /\ UNCHANGED <<docvars, authvars>>

get_document_count(u) ==
    /\ last' = [Resp("get_document_count", 200, "") EXCEPT !.count = count_by_owner(u)]
    /\ UNCHANGED <<docvars, authvars>>

\* The condition under which update_document snapshots the document first.
SavesVersion(doc, p, save_version) ==
    /\ save_version
    /\ "content" \in p.fields /\ p.content # ""
    /\ p.content # doc.content

\* What update_document answers in the current state.
UpdateDocumentOutcome(d, u) ==
    LET chk == GetDocumentOutcome(d, u) IN
    IF chk.status # 200 THEN [chk EXCEPT !.op = "update_document"]
    ELSE Resp("update_document", 200, "")

\* documents.folder_id references folders.id: the commit of an update that
\* sets it to the id of no folder fails with IntegrityError, which nothing
\* catches (500).  Whose folder it is, the database does not ask.
FolderKeyHolds(p) ==
    ("folder_id" \in p.fields /\ p.folder_id # NoId) => folder_get_by_id(p.folder_id) # {}

update_document(d, p, u, save_version) ==
    LET chk == UpdateDocumentOutcome(d, u)
        res == IF chk.status = 200 /\ ~FolderKeyHolds(p)
                  THEN Resp("update_document", 500, "Internal Server Error")
                  ELSE chk
        doc == CHOOSE x \in document_get_by_id(d) : TRUE
    IN
    /\ last' = res
    /\ IF chk.status # 200 THEN UNCHANGED docvars
       ELSE /\ SavesVersion(doc, p, save_version) => nextId.ver <= MaxVersions
            /\ IF SavesVersion(doc, p, save_version)
                  THEN /\ versions' = create_version(doc.id, doc.content, doc.version, u)
                       /\ nextId' = [nextId EXCEPT !.ver = @ + 1]
                  ELSE UNCHANGED <<versions, nextId>>
            /\ documents' = IF res.status = 200 THEN document_update(d, model_dump(p))
                                                ELSE documents
            /\ UNCHANGED folders
    /\ UNCHANGED authvars

\* What delete_document answers in the current state.
DeleteDocumentOutcome(d, u) ==
    LET chk == GetDocumentOutcome(d, u) IN
    IF chk.status # 200 THEN [chk EXCEPT !.op = "delete_document"]
    ELSE Resp("delete_document", 204, "")

delete_document(d, u, permanent) ==
    LET res == DeleteDocumentOutcome(d, u) IN
    /\ last' = res
    /\ IF res.status # 204 THEN UNCHANGED <<documents, versions>>
       ELSE IF permanent
          THEN /\ documents' = permanent_delete_documents(d)
               /\ versions' = permanent_delete_versions(d)
          ELSE /\ documents' = soft_delete(d)
               /\ UNCHANGED versions
    /\ UNCHANGED <<folders, nextId, authvars>>

\* What get_versions answers in the current state.
GetVersionsOutcome(d, u) ==
    LET chk == GetDocumentOutcome(d, u) IN
    IF chk.status # 200 THEN [chk EXCEPT !.op = "get_versions"]
    ELSE [Resp("get_versions", 200, "") EXCEPT !.count = Cardinality(get_versions_of(d))]

get_versions(d, u) ==
    /\ last' = GetVersionsOutcome(d, u)
    /\ UNCHANGED <<docvars, authvars>>

\* Mutant of RestoreContent: the version counter is left as it is.
RestoreContentKeepingCounter(d, content) ==
    {IF x.id = d /\ x.deleted_at = NoTime THEN [x EXCEPT !.content = content] ELSE x
        : x \in documents}

\* restore_version after its snapshot: the update of the content to that of
\* the version, then document.version += 1.
RestoreContent(d, content) ==
    {IF x.id = d /\ x.deleted_at = NoTime
        THEN [x EXCEPT !.content = content, !.version = @ + 1]
        ELSE x : x \in documents}

\* Mutant of RestoreVersionOutcome: the document of the version is not
\* compared with the document of the call.
RestoreVersionOutcomeAnyDocument(d, v, u) ==
    LET chk == GetDocumentOutcome(d, u)
        found == get_version_by_id(v)
    IN IF chk.status # 200 THEN [chk EXCEPT !.op = "restore_version"]
       ELSE IF found = {} THEN Resp("restore_version", 404, "Version not found")
       ELSE Resp("restore_version", 200, "")

\* What restore_version answers in the current state.
RestoreVersionOutcome(d, v, u) ==
    LET chk == GetDocumentOutcome(d, u)
        found == get_version_by_id(v)
    IN IF chk.status # 200 THEN [chk EXCEPT !.op = "restore_version"]
       ELSE IF found = {} \/ (CHOOSE x \in found : TRUE).document_id # d
           THEN Resp("restore_version", 404, "Version not found")
       ELSE Resp("restore_version", 200, "")

restore_version(d, v, u) ==
    LET res == RestoreVersionOutcome(d, v, u)
        doc == CHOOSE x \in document_get_by_id(d) : TRUE
        version == CHOOSE x \in get_version_by_id(v) : TRUE
    IN
    /\ res.status = 200 => nextId.ver <= MaxVersions
    /\ last' = res
    /\ IF res.status # 200 THEN UNCHANGED docvars
       ELSE /\ versions' = create_version(doc.id, doc.content, doc.version, u)
            /\ nextId' = [nextId EXCEPT !.ver = @ + 1]
            /\ documents' = RestoreContent(d, version.content)
            /\ UNCHANGED folders
    /\ UNCHANGED authvars

\* ---------------------------------------------------------- FolderService
create_folder(u, parent) ==
    LET res == FolderCheck("create_folder", parent, u, "Parent folder not found",
                           "You don't have access to parent folder") IN
    /\ res.status = 201 => nextId.folder <= MaxFolders
    /\ last' = res
    /\ IF res.status = 201
          THEN /\ folders' = folders \union {NewFolder(u, parent)}
               /\ nextId' = [nextId EXCEPT !.folder = @ + 1]
          ELSE UNCHANGED <<folders, nextId>>
    /\ UNCHANGED <<documents, versions, authvars>>

\* What delete_folder answers in the current state.
DeleteFolderOutcome(f, u) ==
    LET found == folder_get_by_id(f) IN
    IF found = {} THEN Resp("delete_folder", 404, "Folder not found")
    ELSE IF (CHOOSE x \in found : TRUE).owner_id # u
        THEN Resp("delete_folder", 403, "You don't have access to this folder")
    ELSE Resp("delete_folder", 204, "")

delete_folder(f, u) ==
    LET res == DeleteFolderOutcome(f, u) IN
    /\ last' = res
    /\ IF res.status = 204
          THEN /\ folders' = folder_delete_folders(f)
               /\ documents' = folder_delete_documents(f)
          ELSE UNCHANGED <<folders, documents>>
    /\ UNCHANGED <<versions, nextId, authvars>>

\* --------------------------------------------- the document subsystem
\* Two registered users work on documents and folders.
InitDocs ==
    /\ users = {NewUser(e, "pw1") : e \in Emails}
    /\ sessions = {}
    /\ nextSid = 1
    /\ now = 0
    /\ calls = [c \in CallIds |-> IdleCall]
    /\ last = Resp("init", 0, "")
    /\ revoked = {}
    /\ documents = {}
    /\ versions = {}
    /\ folders = {}
    /\ nextId = [doc |-> 1, ver |-> 1, folder |-> 1]

NextDocs ==
    \/ \E u \in UserIds, c \in Contents, f \in {NoId} \union FolderIds : create_document(u, c, f)
    \/ \E d \in DocIds, u \in UserIds : get_document(d, u)
    \/ \E u \in UserIds : list_documents(u)
    \/ \E u \in UserIds : get_document_count(u)
    \/ \E d \in DocIds, p \in DocumentUpdates, u \in UserIds, sv \in BOOLEAN :
          update_document(d, p, u, sv)
    \/ \E d \in DocIds, u \in UserIds, permanent \in BOOLEAN : delete_document(d, u, permanent)
    \/ \E d \in DocIds, u \in UserIds : get_versions(d, u)
    \/ \E d \in DocIds, v \in VersionIds, u \in UserIds : restore_version(d, v, u)

SpecDocs == InitDocs /\ [][NextDocs]_vars

\* The folders, and the documents put in them.
NextFolders ==
    \/ \E u \in UserIds, parent \in {NoId} \union FolderIds : create_folder(u, parent)
    \/ \E f \in FolderIds, u \in UserIds : delete_folder(f, u)
    \/ \E u \in UserIds, c \in Contents, f \in {NoId} \union FolderIds : create_document(u, c, f)
    \/ \E d \in DocIds, u \in UserIds, permanent \in BOOLEAN : delete_document(d, u, permanent)

SpecFolders == InitDocs /\ [][NextFolders]_vars

\* The folders, and the documents created in them and moved between them.
NextMoves ==
    \/ \E u \in UserIds, parent \in {NoId} \union FolderIds : create_folder(u, parent)
    \/ \E f \in FolderIds, u \in UserIds : delete_folder(f, u)
    \/ \E u \in UserIds, c \in Contents, f \in {NoId} \union FolderIds : create_document(u, c, f)
    \/ \E d \in DocIds, p \in DocumentMoves, u \in UserIds, sv \in BOOLEAN :
          update_document(d, p, u, sv)

SpecMoves == InitDocs /\ [][NextMoves]_vars

\* Several documents with their versions: the state after one create_document
\* call for each id of ManyDocIds, by either user, with empty content.
ManyDocIds == 1..(MaxDocs + 1)

InitManyDocs ==
    /\ users = {NewUser(e, "pw1") : e \in Emails}
    /\ sessions = {}
    /\ nextSid = 1
    /\ now = 0
    /\ calls = [c \in CallIds |-> IdleCall]
    /\ last = Resp("create_document", 201, "")
    /\ revoked = {}
    /\ \E owner \in [ManyDocIds -> UserIds] :
          documents = {[id |-> d, owner_id |-> owner[d], content |-> "", version |-> 1,
                        folder_id |-> NoId, deleted_at |-> NoTime] : d \in ManyDocIds}
    /\ versions = {}
    /\ folders = {}
    /\ nextId = [doc |-> MaxDocs + 2, ver |-> 1, folder |-> 1]

NextManyDocs ==
    \/ \E d \in ManyDocIds, p \in DocumentUpdates, u \in UserIds, sv \in BOOLEAN :
          update_document(d, p, u, sv)
    \/ \E d \in ManyDocIds, v \in VersionIds, u \in UserIds : restore_version(d, v, u)
    \/ \E d \in ManyDocIds, u \in UserIds : get_versions(d, u)

SpecManyDocs == InitManyDocs /\ [][NextManyDocs]_vars

\* ================================================================ claims

\* The session a refresh of `tok` rotates, as the table holds it before.
Rotated(tok) == {s \in sessions : s.id = RefreshOutcome(tok).sid}

\* C1: after a successful refresh, get_current_user_from_token fails for the
\* access token the session held before and succeeds, with the session's
\* user, for the access token the refresh returned.  Stated generously: any
\* failure counts for the old token, and the new token is only asked to
\* resolve while the session's user is active.
C1_RefreshStep(tok) ==
    (refresh_access_token(tok) /\ RefreshOutcome(tok).status = 200) =>
        \A s \in Rotated(tok), new \in {RefreshOutcome(tok).access_token} :
            /\ CurrentUserOutcome(s.access_token)'.status # 200
            /\ get_user_by_id(s.user_id) # {} =>
                   /\ CurrentUserOutcome(new)'.status = 200
                   /\ CurrentUserOutcome(new)'.user = s.user_id

C1_RotationInvalidatesOldToken == [][\A tok \in Presentable : C1_RefreshStep(tok)]_vars

\* C2: after a login of an active user that returned access token a,
\* get_current_user_from_token(a) returns that user; no register, login or
\* get_current_user_from_token request changes that for a token a row holds (refresh, logout,
\* logout-all, expiry and deactivation may); and right after logout(a) of a
\* token that has not expired, get_current_user_from_token(a) fails with the
\* session-not-found error.
C2_LoginStep(e, p, d) ==
    (login(e, p, d) /\ LoginOutcome(e, p).status = 200) =>
        \A a \in {LoginOutcome(e, p).access_token} :
            /\ CurrentUserOutcome(a)'.status = 200
            /\ \E u \in users :
                  u.email = e /\ u.is_active /\ u.id = CurrentUserOutcome(a)'.user

C2_Kept ==
    (last'.op \in {"register", "login", "me"} /\ last'.detail # "Session expired") =>
        \A s \in sessions : \A res \in {CurrentUserOutcome(s.access_token)} :
            res.status = 200 =>
                \A post \in {CurrentUserOutcome(s.access_token)'} :
                    post.status = 200 /\ post.user = res.user /\ post.sid = res.sid

C2_LogoutStep(tok) ==
    (logout(tok) /\ get_session_by_access_token(tok) # {}
                /\ decode_token(tok, now).typ = "access") =>
        /\ CurrentUserOutcome(tok)'.status = 401
        /\ CurrentUserOutcome(tok)'.detail = "Session not found or expired"

C2_LoginThenLogout ==
    [][/\ last'.op = "login" =>
              \A e \in Emails, p \in Passwords, d \in Devices : C2_LoginStep(e, p, d)
       /\ C2_Kept
       /\ last'.op = "logout" => \A tok \in Presentable : C2_LogoutStep(tok)]_vars

\* A user has logged in and logged out, and the access token of that login
\* still decodes.
C2_Witness ==
    /\ last.op = "logout" /\ last.status = 204
    /\ \E u \in users :
          /\ u.last_login # NoTime
          /\ decode_token(create_access_token(u.id, u.last_login), now) # NoToken
          /\ get_session_by_access_token(create_access_token(u.id, u.last_login)) = {}

\* C3: a refresh token is single-use: once refresh_access_token(r) has
\* succeeded, the same call again fails and leaves the session table as it
\* is, and only the refresh token that call returned can refresh the session.
C3_RefreshStep(tok) ==
    (refresh_access_token(tok) /\ RefreshOutcome(tok).status = 200) =>
        \A res \in {RefreshOutcome(tok)} :
            /\ RefreshOutcome(tok)'.status # 200
            /\ RefreshEffect(RefreshOutcome(tok))' = sessions'
            /\ \A t \in TokenInputs :
                  (RefreshOutcome(t)'.status = 200 /\ RefreshOutcome(t)'.sid = res.sid)
                      => t = res.refresh_token

C3_RefreshTokenSingleUse == [][\A tok \in Presentable : C3_RefreshStep(tok)]_vars

\* C4: two refresh requests with the same refresh token that both read the
\* session before either writes: both answer 200 with a pair, the table still
\* holds exactly one row for the session, the row holds the pair of the
\* request that wrote last, and neither lookup finds the pair of the other.
C4_Raced(c1, c2) ==
    /\ calls[c1].pc = "done" /\ calls[c2].pc = "done"
    /\ calls[c1].tok = calls[c2].tok /\ calls[c1].sid = calls[c2].sid
    /\ calls[c1].overlap \/ calls[c2].overlap
    /\ calls[c1].order = 1 /\ calls[c2].order = 2
    /\ last.op = "refresh"

C4_ConcurrentRefreshLastWriteWins ==
    \A c1, c2 \in CallIds :
        C4_Raced(c1, c2) =>
            /\ calls[c1].status = 200 /\ calls[c2].status = 200
            /\ Cardinality({s \in sessions : s.id = calls[c1].sid}) = 1
            /\ \A s \in sessions : s.id = calls[c1].sid =>
                  /\ s.access_token = calls[c2].access_token
                  /\ s.refresh_token = calls[c2].refresh_token
            /\ get_session_by_access_token(calls[c1].access_token) = {}
            /\ get_session_by_refresh_token(calls[c1].refresh_token) = {}

\* C5: for every session whose expires_at is in the past, refresh with its
\* refresh token and get_current_user_from_token with its access token both
\* fail with the session-expired error (and the failing call deletes the row).
C5_ExpiredSessionFailsAsExpired ==
    \A s \in sessions : s.expires_at < now =>
        /\ RefreshOutcome(s.refresh_token).detail = "Session expired"
        /\ CurrentUserOutcome(s.access_token).detail = "Session expired"

\* C6: login with the correct password of a user that exists but is inactive
\* fails with the account-deactivated error, 403.
C6_DeactivatedLoginIs403 ==
    \A u \in users, p \in Passwords :
        (~u.is_active /\ verify_password(p, u.password_hash)) =>
            /\ LoginOutcome(u.email, p).status = 403
            /\ LoginOutcome(u.email, p).detail = "Account is deactivated"

\* C7: login with a registered email and a wrong password, and login with an
\* email no user has, answer the same error (same status, same message); the
\* failed login creates no session row and changes no user row.
C7_Failing(e, p) ==
    \/ \A u \in users : u.email # e
    \/ \E u \in users : u.email = e /\ ~verify_password(p, u.password_hash)

C7_SameError ==
    \A e \in Emails, p \in Passwords :
        C7_Failing(e, p) =>
            LoginOutcome(e, p) = Resp("login", 401, "Invalid email or password")

C7_LoginStep(e, p, d) ==
    (login(e, p, d) /\ C7_Failing(e, p)) => (sessions' = sessions /\ users' = users)

C7_BadCredentialsIndistinguishable ==
    /\ []C7_SameError
    /\ [][last'.op = "login" =>
              \A e \in Emails, p \in Passwords, d \in Devices : C7_LoginStep(e, p, d)]_vars

\* A login with a wrong password of a registered, active user has failed,
\* while another email is still unregistered.
C7_Witness ==
    /\ last.op = "login" /\ last.status = 401
    /\ \E u \in users, p \in Passwords :
          u.is_active /\ ~verify_password(p, u.password_hash)
    /\ \E e \in Emails : \A u \in users : u.email # e

\* C8: once an email is registered (its user active or deactivated since),
\* register with that email fails with 400 and leaves the users table as it
\* is; at most one user row has a given email.
C8_State ==
    /\ \A u \in users, p \in Passwords : RegisterOutcome(u.email, p).status = 400
    /\ \A u1, u2 \in users : u1.email = u2.email => u1 = u2

C8_RegisterStep(e, p) ==
    (register(e, p) /\ \E u \in users : u.email = e) =>
        (users' = users /\ last'.status = 400)

C8_DuplicateEmailRejected ==
    /\ []C8_State
    /\ [][last'.op = "register" =>
              \A e \in Emails, p \in Passwords : C8_RegisterStep(e, p)]_vars

\* A registration with the email of a deactivated user has been refused.
C8_Witness ==
    /\ last.op = "register" /\ last.status = 400
    /\ last.detail = "A user with this email already exists."
    /\ \E u \in users : ~u.is_active

\* C9: no two session rows share an access token, and no two share a refresh
\* token.
C9_TokensUniqueAcrossSessions ==
    \A s1, s2 \in sessions :
        s1 # s2 => (s1.access_token # s2.access_token
                   /\ s1.refresh_token # s2.refresh_token)

\* Two sessions of one user, and a rotation refused because the pair it minted
\* is the pair the other session holds.
C9_Witness ==
    /\ last.op = "refresh" /\ last.status = 500
    /\ \E s1, s2 \in sessions : s1.id # s2.id /\ s1.user_id = s2.user_id

\* C10: whenever get_current_user_from_token(a) returns a user, a session row
\* holds a as its access token and that row's expires_at has not passed; a
\* token that decodes but whose row is gone is not accepted.
C10_SessionStoreAuthoritative ==
    \A tok \in TokenInputs :
        CurrentUserOutcome(tok).status = 200 =>
            \E s \in sessions : s.access_token = tok /\ ~(s.expires_at < now)

\* A token has just been accepted while another access token still decodes
\* and is held by no row (its session was rotated or deleted).
C10_Witness ==
    /\ last.op = "me" /\ last.status = 200
    /\ \E tok \in Tokens :
          /\ decode_token(tok, now).typ = "access"
          /\ tok \in {create_access_token(u.id, t) : u \in users, t \in 0..now}
          /\ get_session_by_access_token(tok) = {}

\* C11: revocation is terminal: once a session row is deleted, no row with
\* its id comes back, and neither get_current_user_from_token nor
\* refresh_access_token accepts the tokens it held again.
C11_RevocationIsTerminal ==
    \A r \in revoked :
        /\ \A s \in sessions : s.id # r.id
        /\ CurrentUserOutcome(r.access_token).status # 200
        /\ RefreshOutcome(r.refresh_token).status # 200


\* C12: right after logout_all_sessions(u), get_active_sessions(u) returns the
\* empty list, and no lookup finds an access or refresh token that a session
\* of u held.
C12_LogoutAllStep(u) ==
    logout_all_sessions(u) =>
        /\ get_active_sessions_by_user(u)' = {<<>>}
        /\ \A s \in sessions : s.user_id = u =>
              /\ get_session_by_access_token(s.access_token)' = {}
              /\ get_session_by_refresh_token(s.refresh_token)' = {}

C12_LogoutAllLeavesNoSession ==
    [][last'.op = "logout_all" => \A u \in UserIds : C12_LogoutAllStep(u)]_vars

\* logout_all_sessions has just deleted two rows, the whole table.
C12_Witness ==
    /\ last.op = "logout_all" /\ last.count = 2
    /\ sessions = {}


\* C13: logout_all_sessions(u) deletes every row of u, expired or not, and no
\* row of another user; it returns the number of rows it deleted; called again
\* at once it would delete nothing and return 0.
C13_LogoutAllStep(u) ==
    logout_all_sessions(u) =>
        /\ \A s \in sessions : s \in sessions' <=> s.user_id # u
        /\ sessions' \subseteq sessions
        /\ last'.count = Cardinality({s \in sessions : s.user_id = u})
        /\ delete_all_user_sessions(u)' = sessions'

C13_LogoutAllFrame ==
    [][last'.op = "logout_all" => \A u \in UserIds : C13_LogoutAllStep(u)]_vars

\* logout_all_sessions has just deleted the one row of a user, and a row of
\* another user is still there.
C13_Witness ==
    /\ last.op = "logout_all" /\ last.count = 1
    /\ sessions # {}


\* C14: logout(a) deletes exactly the row whose access_token is a and leaves
\* every other row as it is; it answers 204 iff there was such a row (404
\* otherwise), so a second logout(a) finds no row, answers 404 and changes
\* nothing.
C14_LogoutStep(tok) ==
    logout(tok) =>
        /\ \A s \in sessions : s \in sessions' <=> s.access_token # tok
        /\ sessions' \subseteq sessions
        /\ last'.status = IF \E s \in sessions : s.access_token = tok THEN 204 ELSE 404
        /\ get_session_by_access_token(tok)' = {}
        /\ delete_session_by_access_token(tok)' = sessions'

C14_LogoutFrame ==
    [][last'.op = "logout" => \A tok \in Presentable : C14_LogoutStep(tok)]_vars

\* A logout has deleted a row of a user who still has another session.
C14_Witness ==
    /\ last.op = "logout" /\ last.status = 204
    /\ \E s \in sessions, u \in users :
          /\ u.id = s.user_id
          /\ u.last_login > s.created_at

\* C15: when the user of a session has been deactivated,
\* get_current_user_from_token with the session's access token, still valid,
\* fails with the user-not-found error; no deactivated user is ever returned;
\* and the failed call leaves the session row in place.
C15_Deactivated(s) ==
    /\ \E u \in users : u.id = s.user_id /\ ~u.is_active
    /\ decode_token(s.access_token, now) # NoToken
    /\ ~(s.expires_at < now)

C15_State ==
    /\ \A s \in sessions : C15_Deactivated(s) =>
          /\ CurrentUserOutcome(s.access_token).status = 401
          /\ CurrentUserOutcome(s.access_token).detail = "User not found"
    /\ \A tok \in Presentable, u \in users :
          (CurrentUserOutcome(tok).status = 200 /\ CurrentUserOutcome(tok).user = u.id)
              => u.is_active

C15_MeStep(tok) ==
    (get_current_user_from_token(tok) /\ CurrentUserOutcome(tok).detail = "User not found")
        => sessions' = sessions

C15_DeactivatedUserNotFound ==
    /\ []C15_State
    /\ [][last'.op = "me" => \A tok \in Presentable : C15_MeStep(tok)]_vars

\* get_current_user_from_token has just refused the token of a deactivated
\* user's session, and the row is still there.
C15_Witness ==
    /\ last.op = "me" /\ last.detail = "User not found"
    /\ \E s \in sessions : C15_Deactivated(s)


\* C16: token kinds are not interchangeable: refresh_access_token with an
\* access token that decodes and get_current_user_from_token with a refresh
\* token that decodes both fail with the invalid-token error, also when a row
\* holds the token, and the failed call leaves the session table unchanged.
C16_State ==
    \A tok \in Presentable :
        /\ decode_token(tok, now).typ = "access" =>
              /\ RefreshOutcome(tok).status = 401
              /\ RefreshOutcome(tok).detail = "Invalid refresh token"
              /\ RefreshEffect(RefreshOutcome(tok)) = sessions
        /\ decode_token(tok, now).typ = "refresh" =>
              /\ CurrentUserOutcome(tok).status = 401
              /\ CurrentUserOutcome(tok).detail = "Invalid access token"

C16_Step(tok) ==
    /\ (refresh_access_token(tok) /\ decode_token(tok, now).typ = "access")
           => sessions' = sessions
    /\ (get_current_user_from_token(tok) /\ decode_token(tok, now).typ = "refresh")
           => sessions' = sessions

C16_TokenKindsNotInterchangeable ==
    /\ []C16_State
    /\ [][last'.op \in {"refresh", "me"} => \A tok \in Presentable : C16_Step(tok)]_vars

\* A request has just been refused for the kind of its token while a row
\* holds an access token and a refresh token that both decode.
C16_Witness ==
    /\ last.status = 401
    /\ last.detail \in {"Invalid refresh token", "Invalid access token"}
    /\ \E s \in sessions :
          /\ decode_token(s.access_token, now) # NoToken
          /\ decode_token(s.refresh_token, now) # NoToken


\* The fields of a session row.
C17_Fields ==
    {"id", "user_id", "access_token", "refresh_token", "expires_at", "created_at",
     "updated_at", "device_info"}

\* A successful refresh of `tok` changes, in the row it targets, no field
\* outside `rewritten`; it changes the number of rows not at all and no other
\* row.
C17_RefreshStep(tok, rewritten) ==
    (refresh_access_token(tok) /\ RefreshOutcome(tok).status = 200) =>
        \A sid \in {RefreshOutcome(tok).sid} :
            /\ Cardinality(sessions') = Cardinality(sessions)
            /\ \A s \in sessions : s.id # sid => s \in sessions'
            /\ \A s \in sessions : s.id = sid =>
                  \E t \in sessions' :
                      /\ t.id = sid
                      /\ \A f \in C17_Fields \ rewritten : t[f] = s[f]

\* C17: a successful refresh rewrites only access_token, refresh_token and
\* expires_at of the one row it targets; the row keeps its other fields, the
\* number of rows is unchanged and every other row is unchanged.
C17_RefreshRewritesOnlyTokensAndExpiry ==
    [][last'.op = "refresh" =>
          \A tok \in Presentable :
              C17_RefreshStep(tok, {"access_token", "refresh_token", "expires_at"})]_vars

\* C17, amended: a successful refresh rewrites only access_token,
\* refresh_token, expires_at and updated_at of the one row it targets; the row
\* keeps its id, user_id, created_at and device metadata, the number of rows
\* is unchanged and every other row is unchanged.
C17_RefreshFrame ==
    [][last'.op = "refresh" =>
          \A tok \in Presentable :
              C17_RefreshStep(tok, {"access_token", "refresh_token", "expires_at",
                                    "updated_at"})]_vars

\* A refresh has just rotated a row created earlier, and another row is there.
C17_Witness ==
    /\ last.op = "refresh" /\ last.status = 200
    /\ \E s, t \in sessions :
          /\ s.id # t.id
          /\ s.access_token = last.access_token
          /\ s.updated_at > s.created_at


\* A successful login adds exactly one row, with a new id, owned by the user
\* who logged in and holding the two tokens returned to the caller, and
\* leaves every existing row as it is.
C18_RowAdded(e, res) ==
    \E new \in sessions' :
        /\ sessions' = sessions \union {new}
        /\ \A s \in sessions : s.id # new.id
        /\ \E u \in users : u.email = e /\ u.id = new.user_id
        /\ new.access_token = res.access_token /\ last'.access_token = res.access_token
        /\ new.refresh_token = res.refresh_token /\ last'.refresh_token = res.refresh_token

\* Every existing session is as usable after the step as before: what
\* get_current_user_from_token answers for its access token is unchanged, and
\* a refresh its refresh token would have been granted is still granted.
C18_StillUsable ==
    \A s \in sessions :
        \A me \in {CurrentUserOutcome(s.access_token)}, rf \in {RefreshOutcome(s.refresh_token)} :
            /\ CurrentUserOutcome(s.access_token)' = me
            /\ rf.status = 200 => RefreshOutcome(s.refresh_token)'.status = 200

\* C18: every successful login adds exactly one session row, owned by the
\* user who logged in and holding exactly the tokens returned, and leaves
\* every existing session unchanged and still usable.
C18_LoginStep(e, p, d) ==
    (login(e, p, d) /\ LoginOutcome(e, p).status = 200) =>
        \A res \in {LoginOutcome(e, p)} : C18_RowAdded(e, res) /\ C18_StillUsable

C18_LoginAddsOneSession ==
    [][last'.op = "login" =>
          \A e \in Emails, p \in Passwords, d \in Devices : C18_LoginStep(e, p, d)]_vars


C20_State ==
    \A u \in UserIds :
        /\ get_active_sessions_by_user(u) # {}
        /\ \A l \in get_active_sessions_by_user(u) :
              /\ {l[i] : i \in DOMAIN l} =
                     {s \in sessions : s.user_id = u /\ s.expires_at > now}
              /\ \A i, j \in DOMAIN l : i # j => l[i].id # l[j].id
              /\ \A i, j \in DOMAIN l : i < j => l[i].created_at >= l[j].created_at

\* A refresh keeps created_at: the row it rotates stays where it was in the
\* list.
C20_RefreshStep(tok) ==
    (refresh_access_token(tok) /\ RefreshOutcome(tok).status = 200) =>
        \A sid \in {RefreshOutcome(tok).sid}, u \in UserIds :
            \A l \in get_active_sessions_by_user(u) :
                \A i \in DOMAIN l : l[i].id = sid =>
                    \A l2 \in get_active_sessions_by_user(u)' :
                        i \in DOMAIN l2 /\ l2[i].id = sid

C20_ActiveSessionsNewestFirst ==
    /\ []C20_State
    /\ [][last'.op = "refresh" => \A tok \in Presentable : C20_RefreshStep(tok)]_vars

\* A refresh has just rotated the older of the two active sessions of a user.
C20_Witness ==
    /\ last.op = "refresh" /\ last.status = 200
    /\ \E u \in UserIds : \E l \in get_active_sessions_by_user(u) :
          /\ DOMAIN l = 1..2
          /\ l[2].access_token = last.access_token
          /\ l[2].updated_at > l[1].created_at


\* ---------------------------------------------------------------- C21
\* C21: a successful login of a registered email answers a token pair with
\* token_type "bearer" and expires_in = ACCESS_TOKEN_EXPIRE_MINUTES * 60; the
\* access token of the pair resolves to the user with that email, exposed as a
\* profile without a password or password-hash field; a successful refresh
\* answers the same token_type and expires_in.
C21_TokenResponse(res) ==
    /\ res.detail = "bearer"
    /\ res.expires_in = AccessTTL * 60
    /\ res.access_token.typ = "access"
    /\ res.refresh_token.typ = "refresh"

C21_LoginStep(e, p, d) ==
    login(e, p, d) /\ last'.status = 200 =>
        /\ C21_TokenResponse(last')
        /\ \E u \in users : u.email = e
        /\ \A me \in {CurrentUserOutcome(last.access_token)'} :
              /\ me.status = 200
              /\ me.profile.email = e
              /\ DOMAIN me.profile \cap {"password", "password_hash"} = {}

C21_RefreshStep(tok) ==
    refresh_access_token(tok) /\ last'.status = 200 => C21_TokenResponse(last')

C21_LoginAndRefreshAnswerTokenResponse ==
    /\ [][last'.op = "login" /\ last'.status = 200 =>
            \A e \in Emails, p \in Passwords, d \in Devices : C21_LoginStep(e, p, d)]_vars
    /\ [][last'.op = "refresh" /\ last'.status = 200 =>
            \A tok \in Presentable : C21_RefreshStep(tok)]_vars

\* A refresh has answered a pair whose access token resolves to a profile.
C21_Witness ==
    /\ last.op = "refresh"
    /\ last.status = 200
    /\ last.expires_in = AccessTTL * 60
    /\ CurrentUserOutcome(last.access_token).profile.email \in Emails


\* ---------------------------------------------------------------- C22
\* C22: for every document d the service finds and every user u other than
\* its owner, get_document, update_document, delete_document, get_versions and
\* restore_version answer 403 and change no row; list_documents(u) and
\* get_document_count(u) cover only documents whose owner is u.
C22_Strangers == {<<x, u>> \in documents \X UserIds : x.deleted_at = NoTime /\ u # x.owner_id}

C22_Refused ==
    \A xu \in C22_Strangers : \A d \in {xu[1].id}, u \in {xu[2]} :
        /\ GetDocumentOutcome(d, u).status = 403
        /\ UpdateDocumentOutcome(d, u).status = 403
        /\ DeleteDocumentOutcome(d, u).status = 403
        /\ GetVersionsOutcome(d, u).status = 403
        /\ \A v \in VersionIds : RestoreVersionOutcome(d, v, u).status = 403

C22_Listed ==
    \A u \in UserIds :
        /\ \A x \in get_by_owner(u) : x.owner_id = u
        /\ count_by_owner(u) <= Cardinality({x \in documents : x.owner_id = u})

C22_Step(d, u) ==
    (\/ get_document(d, u)
     \/ get_versions(d, u)
     \/ \E p \in DocumentUpdates, sv \in BOOLEAN : update_document(d, p, u, sv)
     \/ \E permanent \in BOOLEAN : delete_document(d, u, permanent)
     \/ \E v \in VersionIds : restore_version(d, v, u))
    => last'.status = 403 /\ UNCHANGED <<docvars, authvars>>

C23_SoftDeleted == {x \in documents : x.deleted_at # NoTime}

C23_Gone ==
    \A x \in C23_SoftDeleted : \A u \in UserIds :
        /\ GetDocumentOutcome(x.id, u).status = 404
        /\ UpdateDocumentOutcome(x.id, u).status = 404
        /\ DeleteDocumentOutcome(x.id, u).status = 404
        /\ GetVersionsOutcome(x.id, u).status = 404
        /\ \A v \in VersionIds : RestoreVersionOutcome(x.id, v, u).status = 404
        /\ x \notin get_by_owner(u)
        /\ count_by_owner(u) =
               Cardinality({y \in documents \ C23_SoftDeleted : y.owner_id = u})

C23_DeleteStep(d, u) ==
    delete_document(d, u, FALSE) /\ last'.status = 204 =>
        /\ \E x \in documents : x.id = d /\ x.owner_id = u /\ x.deleted_at = NoTime
        /\ \E y \in documents' : y.id = d /\ y.deleted_at # NoTime
        /\ Cardinality(documents') = Cardinality(documents)

C23_Stays == \A x \in C23_SoftDeleted : x \in documents'

C23_SoftDeletedIsGoneForGood ==
    /\ []C23_Gone
    /\ [][last'.op = "delete_document" =>
             \A d \in DocIds, u \in UserIds : C23_DeleteStep(d, u)]_vars
    /\ [][C23_Stays]_vars

\* The owner has been answered 404 for a document deleted softly, whose
\* versions are still in the table.
C23_Witness ==
    /\ last.op = "get_versions"
    /\ last.status = 404
    /\ \E x \in C23_SoftDeleted : get_versions_of(x.id) # {}


\* ---------------------------------------------------------------- C24
\* C24: whenever the owner's update_document with save_version = true
\* succeeds, the step adds a version row holding the content and the version
\* number the document had before the update, whatever the payload sets.
C24_UpdateStep(d, p, u) ==
    update_document(d, p, u, TRUE) /\ last'.status = 200 =>
        \A doc \in document_get_by_id(d) :
            \E v \in versions' \ versions :
                /\ v.document_id = d
                /\ v.content = doc.content
                /\ v.version = doc.version

C24_SaveVersionAlwaysSnapshots ==
    [][last'.op = "update_document" =>
          \A d \in DocIds, p \in DocumentUpdates, u \in UserIds : C24_UpdateStep(d, p, u)]_vars


\* ---------------------------------------------------------------- C25
\* C25: after a successful restore_version(d, v, owner) the content of d is
\* the content of version v, its version counter is one higher than before,
\* and exactly one version row has been added, holding the content and the
\* version number d had just before the restore; no version row is changed.
C25_RestoreStep(d, v, u) ==
    restore_version(d, v, u) /\ last'.status = 200 =>
        \A doc \in document_get_by_id(d), ver \in get_version_by_id(v) :
            /\ ver.document_id = d /\ doc.owner_id = u
            /\ \E after \in documents' :
                  /\ after.id = d
                  /\ after.content = ver.content
                  /\ after.version = doc.version + 1
                  /\ documents' = (documents \ {doc}) \union {after}
            /\ versions \subseteq versions'
            /\ \E snap \in versions' \ versions :
                  /\ versions' \ versions = {snap}
                  /\ snap.document_id = d
                  /\ snap.content = doc.content
                  /\ snap.version = doc.version

C25_RestoreSnapshotsThenRestores ==
    [][last'.op = "restore_version" =>
          \A d \in DocIds, v \in VersionIds, u \in UserIds : C25_RestoreStep(d, v, u)]_vars

\* A restore has succeeded and changed the content of the document.
C25_Witness ==
    /\ last.op = "restore_version"
    /\ last.status = 200
    /\ \E x \in documents, snap \in versions :
          /\ snap.document_id = x.id
          /\ snap.version + 1 = x.version
          /\ snap.content # x.content


\* ---------------------------------------------------------------- C26
\* C26: after a successful delete_folder(f, owner) every document that was in
\* f is still in the table with the owner and the content it had and with no
\* folder; the step deletes no document; f and its child folders are gone.
C26_DeleteStep(f, u) ==
    delete_folder(f, u) /\ last'.status = 204 =>
        /\ \A x \in documents : x.folder_id = f =>
              [x EXCEPT !.folder_id = NoId] \in documents'
        /\ {x.id : x \in documents'} = {x.id : x \in documents}
        /\ Cardinality(documents') = Cardinality(documents)
        /\ \A c \in folders : (c.id = f \/ c.parent_id = f) =>
              \A y \in folders' : y.id # c.id

C26_FolderDeleteKeepsDocuments ==
    [][last'.op = "delete_folder" =>
          \A f \in FolderIds, u \in UserIds : C26_DeleteStep(f, u)]_vars

\* A folder that held a document and had a child folder has been deleted: the
\* document is in no folder and the only folders ever made are gone.
C26_Witness ==
    /\ last.op = "delete_folder"
    /\ last.status = 204
    /\ nextId.folder > MaxFolders
    /\ folders = {}
    /\ \E x \in documents : x.folder_id = NoId


\* ---------------------------------------------------------------- C27
\* C27: no service operation changes the document_id, content or version
\* number of a version row; a step only adds version rows, or removes the
\* rows of a document together with the document, in a permanent deletion.
C27_Kept(v) == v \in versions'

C27_RemovedWithParent(v) ==
    /\ \A w \in versions' : w.id # v.id
    /\ last'.op = "delete_document" /\ last'.status = 204
    /\ \E x \in documents : x.id = v.document_id
    /\ \A y \in documents' : y.id # v.document_id
    /\ \A w \in versions' : w.document_id # v.document_id

C27_VersionsImmutable ==
    [][\A v \in versions : C27_Kept(v) \/ C27_RemovedWithParent(v)]_vars

\* A document has been deleted permanently, and its versions with it.
C27_Witness ==
    /\ last.op = "delete_document"
    /\ last.status = 204
    /\ nextId.ver > 1
    /\ versions = {}
    /\ documents = {}


\* ---------------------------------------------------------------- C28
\* C28: whenever a refresh request answers a token pair, the row it read holds
\* exactly that pair when it answers, written by its update; a refresh whose
\* session was deleted (logout, logout-all, sweep) between its lookup and its
\* update does not answer a success.
C28_WriteStep(c) ==
    refresh_write(c) =>
        /\ last'.status = 200 =>
              \E s \in sessions' :
                 /\ s.id = calls[c].sid
                 /\ s.access_token = last'.access_token
                 /\ s.refresh_token = last'.refresh_token
                 /\ s.access_token = calls'[c].access_token
        /\ get_session(calls[c].sid) = {} => last'.status # 200 /\ sessions' = sessions

C28_RefreshSuccessMeansRowWritten ==
    [][last'.op = "refresh" => \A c \in CallIds : C28_WriteStep(c)]_vars

\* A refresh whose session was deleted after its lookup has been answered an
\* error.
C28_Witness ==
    /\ last.op = "refresh"
    /\ last.status = 500
    /\ \E c \in CallIds :
          /\ calls[c].pc = "done"
          /\ calls[c].status = 500
          /\ calls[c].sid # NoId
          /\ get_session(calls[c].sid) = {}


\* ---------------------------------------------------------------- C29
\* C29: refresh_access_token does not read the users table: the deactivation
\* of a user changes neither the answer nor the row a refresh of any token
\* would write; a refresh of a deactivated user's session succeeds like any
\* other, rotates the row and extends it to now + REFRESH_TOKEN_EXPIRE_DAYS,
\* and get_current_user_from_token rejects the access token it returns.
C29_DeactivateStep ==
    users' # users =>
        \A tok \in Presentable : \A res \in {RefreshOutcome(tok)} :
            /\ RefreshOutcome(tok)' = res
            /\ RefreshEffect(res)' = RefreshEffect(res)

C29_RefreshStep(tok) ==
    refresh_access_token(tok) /\ last'.status = 200 =>
        \A s \in get_session_by_refresh_token(tok) :
            get_user_by_id(s.user_id) = {} =>
                /\ \E t \in sessions' :
                      /\ t.id = s.id
                      /\ t.access_token = last'.access_token
                      /\ t.refresh_token = last'.refresh_token
                      /\ t.expires_at = now + RefreshTTL
                /\ \A me \in {CurrentUserOutcome(last.access_token)'} :
                      me.status = 401 /\ me.detail = "User not found"

C29_RefreshIgnoresUserState ==
    /\ [][last'.op = "deactivate" => C29_DeactivateStep]_vars
    /\ [][last'.op = "refresh" /\ last'.status = 200 =>
             \A tok \in Presentable : C29_RefreshStep(tok)]_vars

\* The session of a deactivated user has been rotated and extended.
C29_Witness ==
    /\ last.op = "refresh"
    /\ last.status = 200
    /\ \E s \in sessions :
          /\ s.access_token = last.access_token
          /\ s.expires_at > s.created_at + RefreshTTL
          /\ get_user_by_id(s.user_id) = {}
          /\ \E u \in users : u.id = s.user_id /\ ~u.is_active /\ u.last_login < s.updated_at


\* ---------------------------------------------------------------- C30
\* C30: at every instant and for every session row, the three expiry tests
\* agree: the row passes the expiry check of refresh_access_token and
\* get_current_user_from_token exactly if get_active_sessions_by_user lists
\* it, and exactly if delete_expired_sessions would not delete it; so also when
\* now = expires_at.
C30_Passes(s) == ~SessionExpired(s)

C30_Listed(s) ==
    \E l \in get_active_sessions_by_user(s.user_id) : \E i \in DOMAIN l : l[i] = s

C30_Swept(s) == s \notin delete_expired_sessions

C30_ExpiryTestsAgree ==
    \A s \in sessions :
        /\ C30_Passes(s) <=> C30_Listed(s)
        /\ C30_Listed(s) <=> ~C30_Swept(s)


\* C31: with the access lifetime shorter than the refresh lifetime, in every
\* state reached by logins and refreshes each session row's expires_at is not
\* earlier than the exp claim of the refresh token it holds and is later than
\* the exp claim of its access token; so once expires_at has passed, neither
\* token of the row decodes any more.
C31_ExpiresAtCoversTokenClaims ==
    /\ AccessTTL < RefreshTTL
    /\ \A s \in sessions :
          /\ s.expires_at >= s.refresh_token.exp
          /\ s.expires_at > s.access_token.exp
          /\ SessionExpired(s) =>
                /\ decode_token(s.refresh_token, now) = NoToken
                /\ decode_token(s.access_token, now) = NoToken

\* One row has outlived its expires_at while another one has been rotated by a
\* refresh.
C31_Witness ==
    /\ \E s \in sessions : SessionExpired(s) /\ s.updated_at = s.created_at
    /\ \E s \in sessions : s.updated_at > s.created_at


\* C32: when two register requests for the same new email both pass the
\* existence check before either inserts, exactly one of them succeeds (201),
\* the other one is refused with the duplicate-email error (400) and not with
\* an internal error, and exactly one row with the email exists.
C32_RacingRegistersOneWins ==
    \A c \in CallIds :
        LET d == OtherCall(c) IN
        (calls[c].raced /\ calls[d].raced) =>
            /\ calls[c].status # 500
            /\ Cardinality({u \in users : u.email = calls[c].email}) = 1
            /\ (calls[c].pc = "done" /\ calls[d].pc = "done") =>
                  /\ {calls[c].status, calls[d].status} = {201, 400}
                  /\ calls[c].email = calls[d].email

\* Both requests of a race are answered, and the loser passed both existence
\* checks: it was refused by the unique index at its commit.
C32_Witness ==
    \E c \in CallIds :
        /\ calls[c].raced /\ calls[OtherCall(c)].raced
        /\ calls[c].pc = "done" /\ calls[OtherCall(c)].pc = "done"
        /\ calls[c].status = 400
        /\ last.op = "register" /\ last.detail = "A user with this email already exists."
        /\ \A u \in users : u.is_active


\* C33: in every reachable state both tokens a session row holds name the
\* row's user_id in their subject claim (login writes it so and every refresh
\* keeps it), so the user get_current_user_from_token resolves from the
\* subject of a token is the owner of the session the token lookup finds.
C33_TokensNameTheOwner ==
    /\ \A s \in sessions :
          s.access_token.sub = s.user_id /\ s.refresh_token.sub = s.user_id
    /\ \A tok \in Presentable :
          LET res == CurrentUserOutcome(tok) IN
          res.status = 200 =>
              \A s \in get_session_by_access_token(tok) :
                  res.user = s.user_id /\ res.profile.id = s.user_id

\* Two users hold sessions, one of the rows has been rotated by a refresh, and
\* the access token of the rotated row has just been resolved to its user.
C33_Witness ==
    /\ \E s, t \in sessions : s.user_id # t.user_id
    /\ last.op = "me" /\ last.status = 200
    /\ \E s \in sessions :
          /\ s.updated_at > s.created_at
          /\ s.user_id = last.user
          /\ CurrentUserOutcome(s.access_token).status = 200


\* C34: in every state reached by create_document, update_document and
\* delete_folder, a document with a folder_id references an existing folder
\* owned by the owner of the document: update_document moves no document into
\* a folder of another user or into a folder that does not exist.
C34_DocumentsSitInOwnFolders ==
    \A x \in documents :
        x.folder_id # NoId =>
            /\ folder_get_by_id(x.folder_id) # {}
            /\ \A f \in folder_get_by_id(x.folder_id) : f.owner_id = x.owner_id


\* C35: through any sequence of update_document (with or without
\* save_version) and restore_version calls, the version counter of a document
\* never decreases and no two snapshots of a document carry the same version
\* number.
C35_CounterNeverDecreases ==
    \A x \in documents : \A y \in documents' : y.id = x.id => y.version >= x.version

C35_SnapshotNumbersDistinct ==
    \A v, w \in versions :
        (v.document_id = w.document_id /\ v.version = w.version) => v.id = w.id

C35_VersionNumbersOrdered ==
    [][C35_CounterNeverDecreases]_vars /\ []C35_SnapshotNumbersDistinct


\* C36: in every state reached by create_folder and delete_folder the parent
\* relation of the folders is a forest (no folder is its own ancestor), every
\* parent_id that is set references an existing folder, and a folder has the
\* owner of its parent; create_folder with a parent that does not exist
\* answers 404, with a parent of another user 403, and creates no folder.
C36_Forest ==
    \A f \in folders :
        /\ f.id \notin Subtree({x.id : x \in {y \in folders : y.parent_id = f.id}}, MaxFolders)
        /\ f.parent_id # NoId =>
              /\ folder_get_by_id(f.parent_id) # {}
              /\ \A q \in folder_get_by_id(f.parent_id) : q.owner_id = f.owner_id

C36_CreateStep(u, parent) ==
    create_folder(u, parent) =>
        /\ (parent # NoId /\ folder_get_by_id(parent) = {}) =>
              last'.status = 404 /\ folders' = folders
        /\ (\E q \in folder_get_by_id(parent) : q.owner_id # u) =>
              last'.status = 403 /\ folders' = folders
        /\ (parent = NoId \/ \E q \in folder_get_by_id(parent) : q.owner_id = u) =>
              /\ last'.status = 201
              /\ \E f \in folders' \ folders :
                    /\ folders' = folders \union {f}
                    /\ f.owner_id = u /\ f.parent_id = parent

C36_FoldersFormAForest ==
    /\ []C36_Forest
    /\ [][last'.op = "create_folder" =>
             \A u \in UserIds, parent \in {NoId} \union FolderIds : C36_CreateStep(u, parent)]_vars

\* A folder lies below another one, and a create_folder below a folder of
\* another user has just been refused.
C36_Witness ==
    /\ \E f \in folders : f.parent_id # NoId
    /\ last.op = "create_folder" /\ last.status = 403


\* C37: restore_version(d, v, owner), called by the owner of the document d
\* with a version v that does not exist or that is a version of another
\* document, answers 404 and changes nothing: the content and the version
\* counter of d stay as they are and no snapshot is created.
C37_RestoreStep(d, v, u) ==
    (/\ restore_version(d, v, u)
     /\ \E doc \in document_get_by_id(d) : doc.owner_id = u
     /\ \A ver \in get_version_by_id(v) : ver.document_id # d) =>
        /\ last'.status = 404 /\ last'.detail = "Version not found"
        /\ documents' = documents
        /\ versions' = versions
        /\ nextId' = nextId

C37_RestoreOfForeignVersionIsRefused ==
    [][last'.op = "restore_version" =>
          \A d \in ManyDocIds, v \in VersionIds, u \in UserIds : C37_RestoreStep(d, v, u)]_vars

\* A restore has just been refused with "Version not found" although every
\* version id names a snapshot: the version was one of another document.
C37_Witness ==
    /\ last.op = "restore_version" /\ last.status = 404 /\ last.detail = "Version not found"
    /\ \A v \in VersionIds : get_version_by_id(v) # {}
    /\ \E v, w \in versions : v.document_id # w.document_id



\* C38: create_document with a folder_id that names no folder answers 404,
\* with the folder of another user 403, and in both cases creates no document
\* row; without a folder_id, or with a folder of the caller, it creates
\* exactly one document, owned by the caller.
C38_CreateStep(u, c, f) ==
    create_document(u, c, f) =>
        /\ (f # NoId /\ folder_get_by_id(f) = {}) =>
              last'.status = 404 /\ documents' = documents
        /\ (\E q \in folder_get_by_id(f) : q.owner_id # u) =>
              last'.status = 403 /\ documents' = documents
        /\ (f = NoId \/ \E q \in folder_get_by_id(f) : q.owner_id = u) =>
              /\ last'.status = 201
              /\ \E x \in documents' \ documents :
                    /\ documents' = documents \union {x}
                    /\ x.owner_id = u /\ x.folder_id = f /\ x.content = c
                    /\ \A y \in documents : y.id # x.id

C38_CreateDocumentChecksFolder ==
    [][last'.op = "create_document" =>
          \A u \in UserIds, c \in Contents, f \in {NoId} \union FolderIds :
              C38_CreateStep(u, c, f)]_vars

\* A document lies in a folder of its owner, and a create_document into a
\* folder of another user has just been refused.
C38_Witness ==
    /\ \E x \in documents : \E q \in folder_get_by_id(x.folder_id) : q.owner_id = x.owner_id
    /\ last.op = "create_document" /\ last.status = 403
====
